---- MODULE Spec2Model ----
(***************************************************************************)
(* rust_diary: a daily-log tool kept in two front ends over one data       *)
(* model.                                                                  *)
(*                                                                         *)
(*  - the graphical application MyApp (src/src/app.rs): one frame of       *)
(*    MyApp::update is one step; entries are edited in place;              *)
(*  - the terminal application (src/src/main.rs, src/src/ui.rs): one key   *)
(*    handled by run_app's loop is one step.  The type App that main.rs    *)
(*    and ui.rs call into (save_entry, enter_edit_mode, get_weights(date,  *)
(*    zoom), the edit buffers ...) is not among the source files; those    *)
(*    operations are modelled from the design document (spec.md).          *)
(*                                                                         *)
(* The variable `program` says what is running: "gui"; "tui"; "store", the *)
(* save_entry calls of run_app made with entries of any date, followed by  *)
(* a frame; "edit", the editing sessions of run_app with more keys and no  *)
(* date keys; "buffer", one EditBuffer under its own operations.           *)
(* `entries` and `curr_date` are fields of both MyApp and App and are      *)
(* shared.                                                                 *)
(***************************************************************************)
EXTENDS Integers, Sequences, FiniteSets, TLC

VARIABLES
    program,          \* "gui" (MyApp), "tui" (run_app), "store", "edit", "buffer"
    now,              \* the local calendar date of the system clock
    entries,          \* MyApp.entries / App.entries : sequence of Entry
    curr_date,        \* MyApp.curr_date / App.curr_date
    \* ---- MyApp (app.rs)
    sections,         \* MyApp.sections
    mode,             \* MyApp.mode : "Main" | "Edit"
    first_time_edit,  \* MyApp.first_time_edit
    \* ---- history variables (SpecGuiObserved)
    edit_start,       \* Some(the store's data when editing of an entry began)
    frames,           \* frames drawn so far
    \* ---- App and run_app (main.rs, ui.rs)
    pc,               \* run_app: "start" (before the test entries), "loop", "done"
    curr_screen,      \* App.curr_screen : "Main" | "Editing" | "DiscardChanges"
    zoom,             \* App.zoom : "Day" | "Week" | "Month"
    edit_value,       \* App.edit_value : "Content" | "Weight" | "Waist"
    edit_content,     \* App.edit_content : EditBuffer
    edit_weight,      \* App.edit_weight : EditBuffer
    edit_waist,       \* App.edit_waist : EditBuffer
    edit_keys,        \* keys that changed a buffer or moved a cursor, so far
    saves,            \* save_entry calls made on the store directly, so far
    upserted,         \* history: date -> the last two different entries
                      \* passed to save_entry for it, the most recent first
    \* ---- EditBuffer driven directly (SpecBuffer)
    created,          \* the arguments the buffer was created with
    buf_text,         \* the text the operations so far amount to
    buf_cursor        \* the cursor position they amount to

guiOnly == <<sections, mode, first_time_edit, edit_start, frames>>
bufOnly == <<created, buf_text, buf_cursor>>
tuiOnly == <<pc, curr_screen, zoom, edit_value, edit_content, edit_weight,
             edit_waist, edit_keys, saves, upserted, bufOnly>>
vars == <<program, now, entries, curr_date, guiOnly, tuiOnly>>

(***************************************************************************)
(* Option<T>: None is the empty sequence, Some(x) the one-element one.     *)
(***************************************************************************)
None == <<>>
Some(x) == <<x>>

(***************************************************************************)
(* time::Date.  A date is the number of days since 2023-12-31, so that     *)
(* 2024-01-01 is 1; the model uses the years 2024 (a leap year) and 2025.  *)
(***************************************************************************)
DaysInMonth(y, m) ==
    IF m \in {4, 6, 9, 11} THEN 30
    ELSE IF m = 2 THEN (IF y % 4 = 0 THEN 29 ELSE 28)
    ELSE 31

DaysInYear(y) == IF y % 4 = 0 THEN 366 ELSE 365

RECURSIVE DaysBeforeMonth(_, _)
DaysBeforeMonth(y, m) ==
    IF m = 1 THEN 0 ELSE DaysBeforeMonth(y, m - 1) + DaysInMonth(y, m - 1)

from_calendar_date(y, m, d) ==
    (IF y = 2024 THEN 0 ELSE DaysInYear(2024)) + DaysBeforeMonth(y, m) + d

year(date) == IF date <= DaysInYear(2024) THEN 2024 ELSE 2025
ordinal(date) == IF date <= DaysInYear(2024) THEN date ELSE date - DaysInYear(2024)
from_ordinal_date(y, o) == (IF y = 2024 THEN 0 ELSE DaysInYear(2024)) + o

(***************************************************************************)
(* Bounds of the graphical application.                                    *)
(***************************************************************************)
GuiDays == 2          \* the clock passes through this many days
MaxSections == 1      \* sections in the to-do panel
MaxTasks == 1         \* tasks per section

GuiFirstDay == from_calendar_date(2024, 12, 31)
GuiClock == GuiFirstDay .. (GuiFirstDay + GuiDays - 1)

\* what the user may type or drag into an entry (weights in tenths)
GuiContents == { <<>>, <<"a", "\"">> }
GuiWeights == { -5, 0, 705 }
GuiWaists == { 0, 850 }

(***************************************************************************)
(* MyApp: data                                                             *)
(***************************************************************************)
TaskDefault ==
    [text |-> "New task", done |-> FALSE, edit |-> FALSE, delete |-> FALSE]

SectionDefault ==
    [title |-> "New Section", tasks |-> <<TaskDefault>>, edit |-> TRUE,
     delete |-> FALSE]

add_task(section, task, edit) ==
    [section EXCEPT !.tasks =
        Append(@, [text |-> task, done |-> FALSE, edit |-> edit, delete |-> FALSE])]

add_section(secs, title, edit) ==
    Append(secs, [title |-> title, tasks |-> <<>>, edit |-> edit, delete |-> FALSE])

MyAppDefault(today) ==
    [sections |-> <<SectionDefault>>, entries |-> <<>>, curr_date |-> today,
     mode |-> "Main", first_time_edit |-> FALSE]

IsSome(o) == Len(o) = 1

\* only the oldest entry is looked at
get_entry_by_date_last(es, date) ==
    IF Len(es) > 0 /\ es[Len(es)].date = date THEN Some(es[Len(es)]) ELSE None

\* the first entry not before the date is taken
get_entry_by_date_wrong(es, date) ==
    LET hits == SelectSeq(es, LAMBDA e : e.date >= date)
    IN IF Len(hits) > 0 THEN Some(hits[1]) ELSE None

\* entries.iter().find(|entry| entry.date == date)
get_entry_by_date(es, date) ==
    LET hits == SelectSeq(es, LAMBDA e : e.date = date)
    IN IF Len(hits) > 0 THEN Some(hits[1]) ELSE None

clean_tasks(secs) ==
    LET cleaned(s) ==
            LET kept == SelectSeq(s.tasks, LAMBDA t : t.done # TRUE)
            IN [s EXCEPT !.tasks = kept,
                         !.delete = IF Len(kept) = 0 THEN TRUE ELSE @]
        all == [i \in 1..Len(secs) |-> cleaned(secs[i])]
    IN SelectSeq(all, LAMBDA s : s.delete # TRUE)

(***************************************************************************)
(* One frame's input.  egui hands update() the events that arrived since   *)
(* the last frame; the model delivers one event per frame:                 *)
(*   t  the kind of event, i/j the section/task or entry it is aimed at,   *)
(*   s  the text typed (type_content), n the number dragged.              *)
(* An event aimed at a widget the frame does not draw has no effect.       *)
(***************************************************************************)
Ev(t, i, j, s, n) == [t |-> t, i |-> i, j |-> j, s |-> s, n |-> n]

GuiEvents ==
    { Ev(t, 0, 0, <<>>, 0) :
        t \in {"none", "key_enter", "key_escape", "key_c", "add_section", "add_entry"} }
    \cup { Ev(t, i, 0, <<>>, 0) :
        t \in {"section_title", "add_task", "section_minus", "lost_section"},
        i \in 1..MaxSections }
    \cup { Ev(t, i, j, <<>>, 0) :
        t \in {"task_check", "task_label", "task_minus", "lost_task"},
        i \in 1..MaxSections, j \in 1..MaxTasks }
    \cup { Ev(t, i, 0, <<>>, 0) :
        t \in {"entry_date", "entry_content"}, i \in 1..GuiDays }
    \cup { Ev("type_content", i, 0, s, 0) : i \in 1..GuiDays, s \in GuiContents }
    \cup { Ev("drag_weight", i, 0, <<>>, n) : i \in 1..GuiDays, n \in GuiWeights }
    \cup { Ev("drag_waist", i, 0, <<>>, n) : i \in 1..GuiDays, n \in GuiWaists }

EnterOrEscape(ev) == ev.t \in {"key_enter", "key_escape"}

(***************************************************************************)
(* MyApp::update, the to-do panel in Mode::Main (app.rs 188-252)           *)
(***************************************************************************)
SidePanelMain(a, ev) ==
    LET secs0 == IF ev.t = "key_c" THEN clean_tasks(a.sections) ELSE a.sections
        hasSec == ev.i \in 1..Len(secs0)
        hasTask == hasSec /\ ev.j \in 1..Len(secs0[ev.i].tasks)
        canAddTask == hasSec /\ Len(secs0[ev.i].tasks) < MaxTasks
        canAddSec == Len(secs0) < MaxSections
        oneTask(t, i, j) ==
            IF ev.i = i /\ ev.j = j /\ ev.t = "task_check"
            THEN [t EXCEPT !.done = ~@]
            ELSE IF ev.i = i /\ ev.j = j /\ ev.t = "task_label"
            THEN [t EXCEPT !.edit = TRUE]
            ELSE t
        oneSection(s, i) ==
            LET s1 == [s EXCEPT !.edit =
                          IF ev.t = "section_title" /\ ev.i = i THEN TRUE ELSE @]
                s2 == [s1 EXCEPT !.tasks =
                          [j \in 1..Len(s.tasks) |-> oneTask(s.tasks[j], i, j)]]
            IN IF ev.t = "add_task" /\ ev.i = i /\ canAddTask
               THEN add_task(s2, "", TRUE) ELSE s2
        secs1 == [i \in 1..Len(secs0) |-> oneSection(secs0[i], i)]
        secs2 == IF ev.t = "add_section" /\ canAddSec
                 THEN add_section(secs1, "", TRUE) ELSE secs1
        toEdit == \/ ev.t = "section_title" /\ hasSec
                  \/ ev.t = "task_label" /\ hasTask
                  \/ ev.t = "add_task" /\ canAddTask
                  \/ ev.t = "add_section" /\ canAddSec
        focus == toEdit /\ ~(ev.t = "section_title")
    IN [a EXCEPT !.sections = secs2,
                 !.mode = IF toEdit THEN "Edit" ELSE @,
                 !.first_time_edit = IF focus THEN TRUE ELSE @]

(***************************************************************************)
(* MyApp::update, the to-do panel in Mode::Edit (app.rs 254-313)           *)
(***************************************************************************)
SidePanelEdit(a, ev) ==
    LET secs0 == a.sections
        secLeaves(s, i) ==
            s.edit /\ (EnterOrEscape(ev) \/ (ev.t = "lost_section" /\ ev.i = i))
        secMinus(s, i) == s.edit /\ ev.t = "section_minus" /\ ev.i = i
        \* the tasks the loop at 280 walks: cleared when the section's "-" was hit
        tasksOf(s, i) == IF secMinus(s, i) THEN <<>> ELSE s.tasks
        taskLeaves(t, i, j) ==
            t.edit /\ (EnterOrEscape(ev) \/ (ev.t = "lost_task" /\ ev.i = i /\ ev.j = j))
        taskMinus(t, i, j) ==
            t.edit /\ ev.t = "task_minus" /\ ev.i = i /\ ev.j = j
        oneTask(t, i, j) ==
            [t EXCEPT !.edit = IF taskLeaves(t, i, j) THEN FALSE ELSE @,
                      !.delete = IF taskMinus(t, i, j) THEN TRUE ELSE @]
        oneSection(s, i) ==
            LET ts == tasksOf(s, i)
                ts1 == [j \in 1..Len(ts) |-> oneTask(ts[j], i, j)]
            IN [s EXCEPT !.edit = IF secLeaves(s, i) THEN FALSE ELSE @,
                         !.delete = IF secMinus(s, i) THEN TRUE ELSE @,
                         !.tasks = SelectSeq(ts1, LAMBDA t : t.delete # TRUE)]
        toMain ==
            \E i \in 1..Len(secs0) :
                \/ secLeaves(secs0[i], i)
                \/ secMinus(secs0[i], i)
                \/ \E j \in 1..Len(tasksOf(secs0[i], i)) :
                      \/ taskLeaves(secs0[i].tasks[j], i, j)
                      \/ taskMinus(secs0[i].tasks[j], i, j)
        drawsEditor ==
            \E i \in 1..Len(secs0) :
                \/ secs0[i].edit
                \/ \E j \in 1..Len(tasksOf(secs0[i], i)) : secs0[i].tasks[j].edit
    IN [a EXCEPT !.sections = [i \in 1..Len(secs0) |-> oneSection(secs0[i], i)],
                 !.mode = IF toMain THEN "Main" ELSE @,
                 !.first_time_edit = IF drawsEditor THEN FALSE ELSE @]

(***************************************************************************)
(* MyApp::get_weights, MyApp::get_waists: the plotted points, one per      *)
(* entry with a non-zero measurement, x = days from the current date       *)
(***************************************************************************)
RECURSIVE PlotPoints(_, _, _)
PlotPoints(es, date, field) ==
    IF es = <<>> THEN <<>>
    ELSE LET entry == Head(es)
             v == IF field = "weight" THEN entry.weight_kg ELSE entry.waist_cm
         IN (IF v # 0 THEN <<[x |-> entry.date - date, y |-> v]>> ELSE <<>>)
            \o PlotPoints(Tail(es), date, field)

MyApp_get_weights(a) == PlotPoints(a.entries, a.curr_date, "weight")
MyApp_get_waists(a) == PlotPoints(a.entries, a.curr_date, "waist")

(***************************************************************************)
(* MyApp::update, the diary panel (app.rs 368-489)                         *)
(***************************************************************************)
NewEntry(date) ==
    [content |-> <<>>, weight_kg |-> 0, waist_cm |-> 0, date |-> date, edit |-> TRUE]

\* self.entries.insert(0, new_entry)
InsertNewEntry(es, e) == <<e>> \o es

\* self.entries.retain(|t| t.edit == true || t.content.len() > 0 || ...)
RetainEntries(es) ==
    SelectSeq(es, LAMBDA t : t.edit = TRUE \/ Len(t.content) > 0
                              \/ t.weight_kg > 0 \/ t.waist_cm > 0)

CentralMain(a, ev) ==
    LET es == a.entries
        hit(k) == \/ ev.t = "entry_date" /\ ev.i = k
                  \/ ev.t = "entry_content" /\ ev.i = k /\ Len(es[k].content) > 0
        clicked == \E k \in 1..Len(es) : hit(k)
    IN [a EXCEPT !.entries = [k \in 1..Len(es) |->
                                 IF hit(k) THEN [es[k] EXCEPT !.edit = TRUE] ELSE es[k]],
                 !.mode = IF clicked THEN "Edit" ELSE @,
                 !.first_time_edit = IF clicked THEN TRUE ELSE @]

CentralEdit(a, ev) ==
    LET es == a.entries
        escape == ev.t = "key_escape"
        edited(e, k) ==
            LET e1 == IF ev.t = "drag_weight" /\ ev.i = k
                      THEN [e EXCEPT !.weight_kg = ev.n] ELSE e
                e2 == IF ev.t = "drag_waist" /\ ev.i = k
                      THEN [e1 EXCEPT !.waist_cm = ev.n] ELSE e1
                e3 == IF ev.t = "type_content" /\ ev.i = k
                      THEN [e2 EXCEPT !.content = ev.s] ELSE e2
            IN [e3 EXCEPT !.edit = IF escape THEN FALSE ELSE @]
        es1 == [k \in 1..Len(es) |-> IF es[k].edit THEN edited(es[k], k) ELSE es[k]]
        anyEdit == \E k \in 1..Len(es) : es[k].edit
    IN [a EXCEPT !.entries = RetainEntries(es1),
                 !.mode = IF anyEdit /\ escape THEN "Main" ELSE @,
                 !.first_time_edit = IF anyEdit THEN FALSE ELSE @]

Central(a, ev) ==
    LET prompt == get_entry_by_date(a.entries, a.curr_date) = None
        a1 == IF prompt /\ ev.t = "add_entry"
              THEN [a EXCEPT !.entries = InsertNewEntry(@, NewEntry(a.curr_date)),
                             !.mode = "Edit",
                             !.first_time_edit = TRUE]
              ELSE a
    IN IF a1.mode = "Main" THEN CentralMain(a1, ev) ELSE CentralEdit(a1, ev)

\* the whole of MyApp::update for one frame, the clock reading `today`
UpdateFrame(a, today, ev) ==
    LET a0 == [a EXCEPT !.curr_date = IF today > @ THEN today ELSE @]
        a1 == IF a0.mode = "Main" THEN SidePanelMain(a0, ev) ELSE SidePanelEdit(a0, ev)
    IN Central(a1, ev)

MyApp == [sections |-> sections, entries |-> entries, curr_date |-> curr_date,
          mode |-> mode, first_time_edit |-> first_time_edit]

\* the data of a store, without the edit flags
StoreData(es) ==
    [k \in 1..Len(es) |->
        [content |-> es[k].content, weight_kg |-> es[k].weight_kg,
         waist_cm |-> es[k].waist_cm, date |-> es[k].date]]

\* the data of the entries that hold something
StoreKept(es) ==
    StoreData(SelectSeq(es, LAMBDA e : Len(e.content) > 0 \/ e.weight_kg # 0
                                          \/ e.waist_cm # 0))

NumEdited(es) == Cardinality({k \in 1..Len(es) : es[k].edit})

(***************************************************************************)
(* Persistence of MyApp: #[derive(Serialize, Deserialize)] and eframe's    *)
(* set_value / get_value.  The stored form is text: a string is quoted and *)
(* escaped, an f32 is written in decimal, a bool as true/false, a Date as  *)
(* its year and ordinal day.  Weights are held in tenths.                  *)
(***************************************************************************)
DigitChars == <<"0", "1", "2", "3", "4", "5", "6", "7", "8", "9">>
DigitValue(c) == CHOOSE d \in 0..9 : DigitChars[d + 1] = c
IsDigit(c) == \E d \in 0..9 : DigitChars[d + 1] = c

RECURSIVE NatToText(_)
NatToText(n) ==
    IF n < 10 THEN <<DigitChars[n + 1]>>
    ELSE NatToText(n \div 10) \o <<DigitChars[(n % 10) + 1]>>

RECURSIVE TextToNat(_)
TextToNat(t) ==
    IF Len(t) = 0 THEN 0
    ELSE TextToNat(SubSeq(t, 1, Len(t) - 1)) * 10 + DigitValue(t[Len(t)])

F32ToText(x) ==
    LET m == IF x < 0 THEN 0 - x ELSE x
    IN (IF x < 0 THEN <<"-">> ELSE <<>>)
       \o NatToText(m \div 10) \o <<".">> \o <<DigitChars[(m % 10) + 1]>>

TextToF32(t) ==
    LET neg == Len(t) > 0 /\ t[1] = "-"
        body == IF neg THEN SubSeq(t, 2, Len(t)) ELSE t
        dot == CHOOSE k \in 1..Len(body) : body[k] = "."
        m == TextToNat(SubSeq(body, 1, dot - 1)) * 10
             + TextToNat(SubSeq(body, dot + 1, Len(body)))
    IN IF neg THEN 0 - m ELSE m

RECURSIVE EscapeChars(_)
EscapeChars(s) ==
    IF Len(s) = 0 THEN <<>>
    ELSE (IF s[1] \in {"\"", "\\"} THEN <<"\\", s[1]>> ELSE <<s[1]>>)
         \o EscapeChars(Tail(s))

RECURSIVE UnescapeChars(_)
UnescapeChars(t) ==
    IF Len(t) = 0 THEN <<>>
    ELSE IF t[1] = "\\" THEN <<t[2]>> \o UnescapeChars(SubSeq(t, 3, Len(t)))
    ELSE <<t[1]>> \o UnescapeChars(Tail(t))

StringToText(s) == <<"\"">> \o EscapeChars(s) \o <<"\"">>
TextToString(t) == UnescapeChars(SubSeq(t, 2, Len(t) - 1))

BoolToText(b) == IF b THEN "true" ELSE "false"
TextToBool(t) == t = "true"

DateToText(d) == [year |-> NatToText(year(d)), ordinal |-> NatToText(ordinal(d))]
TextToDate(t) == from_ordinal_date(TextToNat(t.year), TextToNat(t.ordinal))

SerializeEntry(e) ==
    [content |-> StringToText(e.content),
     weight_kg |-> F32ToText(e.weight_kg),
     waist_cm |-> F32ToText(e.waist_cm),
     date |-> DateToText(e.date),
     edit |-> BoolToText(e.edit)]

\* a field read back as another one's value
DeserializeEntry_swapped(r) ==
    [content |-> TextToString(r.content),
     weight_kg |-> TextToF32(r.weight_kg),
     waist_cm |-> TextToF32(r.weight_kg),
     date |-> TextToDate(r.date),
     edit |-> IF "edit" \in DOMAIN r THEN TextToBool(r.edit) ELSE FALSE]

DeserializeEntry(r) ==
    [content |-> TextToString(r.content),
     weight_kg |-> TextToF32(r.weight_kg),
     waist_cm |-> TextToF32(r.waist_cm),
     date |-> TextToDate(r.date),
     edit |-> IF "edit" \in DOMAIN r THEN TextToBool(r.edit) ELSE FALSE]

SerializeEntries(es) == [k \in 1..Len(es) |-> SerializeEntry(es[k])]
DeserializeEntries(rs) == [k \in 1..Len(rs) |-> DeserializeEntry(rs[k])]

SerializeTask(t) ==
    [text |-> t.text, done |-> BoolToText(t.done), edit |-> BoolToText(t.edit),
     delete |-> BoolToText(t.delete)]
DeserializeTask(r) ==
    [text |-> r.text, done |-> TextToBool(r.done), edit |-> TextToBool(r.edit),
     delete |-> TextToBool(r.delete)]
SerializeSection(s) ==
    [title |-> s.title,
     tasks |-> [j \in 1..Len(s.tasks) |-> SerializeTask(s.tasks[j])],
     edit |-> BoolToText(s.edit), delete |-> BoolToText(s.delete)]
DeserializeSection(r) ==
    [title |-> r.title,
     tasks |-> [j \in 1..Len(r.tasks) |-> DeserializeTask(r.tasks[j])],
     edit |-> TextToBool(r.edit), delete |-> TextToBool(r.delete)]

\* eframe::set_value(storage, APP_KEY, self)
save(a) ==
    [sections |-> [i \in 1..Len(a.sections) |-> SerializeSection(a.sections[i])],
     entries |-> SerializeEntries(a.entries),
     curr_date |-> DateToText(a.curr_date),
     mode |-> a.mode,
     first_time_edit |-> BoolToText(a.first_time_edit)]

\* eframe::get_value::<MyApp>(storage, APP_KEY)
get_value(st) ==
    [sections |-> [i \in 1..Len(st.sections) |-> DeserializeSection(st.sections[i])],
     entries |-> DeserializeEntries(st.entries),
     curr_date |-> TextToDate(st.curr_date),
     mode |-> st.mode,
     first_time_edit |-> TextToBool(st.first_time_edit)]

\* MyApp::new with a storage holding `st`, the clock reading `today`
MyApp_new(st, today) ==
    [get_value(st) EXCEPT !.curr_date = today, !.mode = "Main"]

(***************************************************************************)
(* The graphical application as a state machine                            *)
(***************************************************************************)
InitGui ==
    /\ program = "gui"
    /\ now \in GuiClock
    /\ sections = MyAppDefault(now).sections
    /\ entries = MyAppDefault(now).entries
    /\ curr_date = MyAppDefault(now).curr_date
    /\ mode = MyAppDefault(now).mode
    /\ first_time_edit = MyAppDefault(now).first_time_edit
    /\ edit_start = None
    /\ frames = 0
    /\ pc = "none"
    /\ curr_screen = "Main"
    /\ zoom = "Day"
    /\ edit_value = "Content"
    /\ edit_content = [before_cursor |-> <<>>, after_cursor |-> <<>>]
    /\ edit_weight = [before_cursor |-> <<>>, after_cursor |-> <<>>]
    /\ edit_waist = [before_cursor |-> <<>>, after_cursor |-> <<>>]
    /\ edit_keys = 0
    /\ saves = 0
    /\ upserted = <<>>
    /\ created = <<>> /\ buf_text = <<>> /\ buf_cursor = 0

SetMyApp(a) ==
    /\ sections' = a.sections
    /\ entries' = a.entries
    /\ curr_date' = a.curr_date
    /\ mode' = a.mode
    /\ first_time_edit' = a.first_time_edit

\* eframe calls update once per frame
update ==
    /\ program = "gui"
    /\ \E today \in GuiClock, ev \in GuiEvents :
          /\ today >= now
          /\ now' = today
          /\ SetMyApp(UpdateFrame(MyApp, today, ev))
    /\ UNCHANGED <<program, tuiOnly>>

\* the window is closed (eframe saves on exit) and the program started again
Restart ==
    /\ program = "gui"
    /\ \E today \in GuiClock :
          /\ today >= now
          /\ now' = today
          /\ SetMyApp(MyApp_new(save(MyApp), today))
    /\ UNCHANGED <<program, tuiOnly>>

NextGui ==
    \/ update /\ UNCHANGED <<edit_start, frames>>
    \/ Restart /\ UNCHANGED <<edit_start, frames>>

SpecGui == InitGui /\ [][NextGui]_vars

(***************************************************************************)
(* The first MaxFrames frames of a run of the graphical application,       *)
(* observed with a history variable: edit_start is Some(the store's data)  *)
(* as it was just before the editing of an entry began, and None while no  *)
(* entry is being edited.                                                  *)
(***************************************************************************)
MaxFrames == 5

ObserveEdit ==
    /\ frames < MaxFrames
    /\ frames' = frames + 1
    /\ edit_start' =
          IF NumEdited(entries') > NumEdited(entries) THEN Some(StoreKept(entries))
          ELSE IF NumEdited(entries') = 0 THEN None
          ELSE edit_start

NextGuiObserved ==
    \/ update /\ ObserveEdit
    \/ Restart /\ ObserveEdit

SpecGuiObserved == InitGui /\ [][NextGuiObserved]_vars

(***************************************************************************)
(***************************************************************************)
(* The terminal application                                                *)
(***************************************************************************)
(***************************************************************************)

\* 2023-12-31, the day before date 1, was a Sunday: 0 = Sunday ... 6 = Saturday
weekday(date) == date % 7

\* Date::prev_occurrence / next_occurrence: the nearest day strictly before /
\* after `date` that falls on `wd`
prev_occurrence(date, wd) ==
    CHOOSE d \in (date - 7)..(date - 1) : weekday(d) = wd

next_occurrence(date, wd) ==
    CHOOSE d \in (date + 1)..(date + 7) : weekday(d) = wd

RECURSIVE nth_prev_occurrence(_, _, _)
nth_prev_occurrence(date, wd, n) ==
    IF n = 0 THEN date
    ELSE nth_prev_occurrence(prev_occurrence(date, wd), wd, n - 1)

previous_day(date) == date - 1
next_day(date) == date + 1

RECURSIVE MonthOf(_, _, _)
MonthOf(y, o, m) ==
    IF o <= DaysInMonth(y, m) THEN m ELSE MonthOf(y, o - DaysInMonth(y, m), m + 1)

\* Date::day, the day of the month
day(date) ==
    ordinal(date) - DaysBeforeMonth(year(date), MonthOf(year(date), ordinal(date), 1))

(***************************************************************************)
(* Measurements of the terminal application are Option<f32>.  A number is  *)
(* held as a decimal [mant, exp], meaning mant / 10^exp, with no trailing  *)
(* zero in the fraction, so that equal numbers are equal records.          *)
(***************************************************************************)
RECURSIVE Pow10(_)
Pow10(k) == IF k = 0 THEN 1 ELSE 10 * Pow10(k - 1)

RECURSIVE Dec(_, _)
Dec(mant, exp) ==
    IF exp > 0 /\ mant % 10 = 0 THEN Dec(mant \div 10, exp - 1)
    ELSE [mant |-> mant, exp |-> exp]

Zero == Dec(0, 0)
Whole(n) == Dec(n, 0)

Max(a, b) == IF a >= b THEN a ELSE b

AddDec(a, b) ==
    LET e == Max(a.exp, b.exp)
    IN Dec(a.mant * Pow10(e - a.exp) + b.mant * Pow10(e - b.exp), e)

\* a * k for a natural k
ScaleDec(a, k) == Dec(a.mant * k, a.exp)

\* str::parse::<f32>() on a text of the characters the model types
ParseF32(t) ==
    LET dots == {k \in 1..Len(t) : t[k] = "."}
        ok == /\ \A k \in 1..Len(t) : IsDigit(t[k]) \/ t[k] = "."
              /\ Cardinality(dots) <= 1
              /\ \E k \in 1..Len(t) : IsDigit(t[k])
        dot == IF dots = {} THEN Len(t) + 1 ELSE CHOOSE k \in dots : TRUE
        whole == SubSeq(t, 1, dot - 1)
        frac == SubSeq(t, dot + 1, Len(t))
    IN IF ok
       THEN Some(Dec(TextToNat(whole) * Pow10(Len(frac)) + TextToNat(frac), Len(frac)))
       ELSE None

RECURSIVE PadLeft(_, _)
PadLeft(t, n) == IF Len(t) >= n THEN t ELSE PadLeft(<<"0">> \o t, n)

\* f32::to_string()
F32ToString(x) ==
    IF x.exp = 0 THEN NatToText(x.mant)
    ELSE NatToText(x.mant \div Pow10(x.exp))
         \o <<".">> \o PadLeft(NatToText(x.mant % Pow10(x.exp)), x.exp)

(***************************************************************************)
(* EditBuffer: the text before and after the cursor.                       *)
(***************************************************************************)
create_empty == [before_cursor |-> <<>>, after_cursor |-> <<>>]

\* index 0 taken as the position before the first character
create_from_start(text, cursor_index) ==
    IF cursor_index > Len(text)
    THEN [before_cursor |-> text, after_cursor |-> <<>>]
    ELSE [before_cursor |-> SubSeq(text, 1, cursor_index),
          after_cursor |-> SubSeq(text, cursor_index + 1, Len(text))]

create_from(text, cursor_index) ==
    IF cursor_index = 0 \/ cursor_index > Len(text)
    THEN [before_cursor |-> text, after_cursor |-> <<>>]
    ELSE [before_cursor |-> SubSeq(text, 1, cursor_index),
          after_cursor |-> SubSeq(text, cursor_index + 1, Len(text))]

insert_char(b, c) == [b EXCEPT !.before_cursor = Append(@, c)]

\* with nothing before the cursor, the last character after it goes
delete_before_last(b) ==
    IF Len(b.before_cursor) > 0
    THEN [b EXCEPT !.before_cursor = SubSeq(@, 1, Len(@) - 1)]
    ELSE [b EXCEPT !.after_cursor = SubSeq(@, 1, Len(@) - 1)]

delete_before(b) ==
    IF Len(b.before_cursor) > 0
    THEN [b EXCEPT !.before_cursor = SubSeq(@, 1, Len(@) - 1)]
    ELSE b

move_cursor_forward(b) ==
    IF Len(b.after_cursor) > 0
    THEN [before_cursor |-> Append(b.before_cursor, Head(b.after_cursor)),
          after_cursor |-> Tail(b.after_cursor)]
    ELSE b

\* the character stepped over is lost
move_cursor_backward_drop(b) ==
    IF Len(b.before_cursor) > 0
    THEN [b EXCEPT !.before_cursor = SubSeq(@, 1, Len(@) - 1)]
    ELSE b

move_cursor_backward(b) ==
    IF Len(b.before_cursor) > 0
    THEN [before_cursor |-> SubSeq(b.before_cursor, 1, Len(b.before_cursor) - 1),
          after_cursor |-> <<b.before_cursor[Len(b.before_cursor)]>> \o b.after_cursor]
    ELSE b

to_final_string(b) == b.before_cursor \o b.after_cursor

(***************************************************************************)
(* The entry store of App                                                  *)
(***************************************************************************)
Entry(content, weight_kg, waist_cm, date) ==
    [content |-> content, weight_kg |-> weight_kg, waist_cm |-> waist_cm,
     date |-> date]

\* insert-or-replace keyed by date, the sequence kept ascending
save_entry(es, entry) ==
    IF \E k \in 1..Len(es) : es[k].date = entry.date
    THEN [k \in 1..Len(es) |-> IF es[k].date = entry.date THEN entry ELSE es[k]]
    ELSE LET older == SelectSeq(es, LAMBDA e : e.date < entry.date)
             newer == SelectSeq(es, LAMBDA e : e.date > entry.date)
         IN older \o <<entry>> \o newer

TestContent ==
    <<"T", "h", "i", "s", " ", "i", "s", " ", "a", " ", "t", "e", "s", "t",
      " ", "e", "n", "t", "r", "y", " ", "w", "h", "i", "l", "e", " ", "w",
      "e", " ", "c", "o", "d", "e", " ", "t", "h", "e", " ", "U", "I">>

LongTestContent ==
    <<"T", "h", "i", "s", " ", "i", "s", " ", "a", " ", "t", "e", "s", "t",
      " ", "e", "n", "t", "r", "y", " ", "w", "h", "i", "l", "e", " ", "w",
      "e", " ", "c", "o", "d", "e", " ", "t", "h", "e", " ", "U", "I", ",",
      " ", "a", "n", "d", " ", "I", " ", "h", "a", "v", "e", " ", "j", "u",
      "s", "t", " ", "m", "a", "d", "e", " ", "i", "t", " ", "l", "o", "n",
      "g", " ", "e", "n", "o", "u", "g", "h", " ", "s", "o", " ", "t", "h",
      "a", "t", " ", "i", "t", " ", "n", "e", "e", "d", "s", " ", "t", "o",
      " ", "w", "r", "a", "p", " ", "a", "n", "d", " ", "t", "h", "e", "r",
      "e", "f", "o", "r", "e", " ", "I", " ", "c", "a", "n", " ", "s", "e",
      "e", " ", "t", "h", "e", " ", "b", "e", "h", "a", "v", "i", "o", "u",
      "r">>

\* the entries run_app saves before its loop, in the order it saves them
TestEntries ==
    << Entry(TestContent, Some(Whole(60)), Some(Whole(89)), from_calendar_date(2024, 12, 12)),
       Entry(TestContent, Some(Whole(65)), Some(Whole(89)), from_calendar_date(2024, 12, 13)),
       Entry(TestContent, Some(Whole(63)), Some(Whole(89)), from_calendar_date(2024, 12, 14)),
       Entry(TestContent, Some(Whole(68)), Some(Whole(89)), from_calendar_date(2024, 12, 15)),
       Entry(TestContent, Some(Whole(66)), Some(Whole(89)), from_calendar_date(2024, 12, 16)),
       Entry(TestContent, Some(Whole(71)), Some(Whole(89)), from_calendar_date(2024, 12, 17)),
       Entry(TestContent, Some(Whole(69)), Some(Whole(89)), from_calendar_date(2024, 12, 18)),
       Entry(TestContent, Some(Whole(74)), Some(Whole(89)), from_calendar_date(2024, 12, 19)),
       Entry(TestContent, Some(Whole(72)), Some(Whole(89)), from_calendar_date(2024, 12, 20)),
       Entry(TestContent, Some(Whole(77)), Some(Whole(88)), from_calendar_date(2024, 12, 21)),
       Entry(TestContent, Some(Whole(75)), Some(Whole(84)), from_calendar_date(2024, 12, 22)),
       Entry(TestContent, Some(Whole(80)), Some(Whole(86)), from_calendar_date(2024, 12, 23)),
       Entry(TestContent, None, None, from_calendar_date(2024, 12, 24)),
       Entry(LongTestContent, Some(Whole(83)), Some(Whole(87)), from_calendar_date(2024, 12, 25)) >>

RECURSIVE SaveAll(_, _)
SaveAll(es, more) ==
    IF Len(more) = 0 THEN es ELSE SaveAll(save_entry(es, Head(more)), Tail(more))

(***************************************************************************)
(* The aggregator: the series a graph plots, for a reference date, a zoom  *)
(* level and a field.  A point is [x, y]; y is the ratio sum / n of a      *)
(* decimal sum and a count, so that a mean is held exactly.                *)
(***************************************************************************)
Ratio(sum, n) == [sum |-> sum, n |-> n]
RatioEq(a, b) == ScaleDec(a.sum, b.n) = ScaleDec(b.sum, a.n)
NoSample == Ratio(Zero, 1)

MeasureOf(e, field) == IF field = "weight" THEN e.weight_kg ELSE e.waist_cm

\* Day: one point per day from the previous occurrence of the reference
\* date's weekday through the reference date, x the offset from the first
DayPoint(es, d, field) ==
    LET e == get_entry_by_date(es, d)
    IN IF IsSome(e) /\ IsSome(MeasureOf(e[1], field))
       THEN Ratio(MeasureOf(e[1], field)[1], 1)
       ELSE NoSample

DaySeries(es, date, field) ==
    LET start == prev_occurrence(date, weekday(date))
    IN [i \in 1..(date - start + 1) |->
           [x |-> i - 1, y |-> DayPoint(es, start + i - 1, field)]]

\* Week: the sum and the count of the measurements present among the entries
\* dated first..last, walking the store in order
RECURSIVE BucketTotal(_, _, _, _, _)
BucketTotal(es, first, last, field, acc) ==
    IF Len(es) = 0 THEN acc
    ELSE LET e == Head(es)
             hit == e.date >= first /\ e.date <= last /\ IsSome(MeasureOf(e, field))
         IN BucketTotal(Tail(es), first, last, field,
                IF hit THEN Ratio(AddDec(acc.sum, MeasureOf(e, field)[1]), acc.n + 1)
                ELSE acc)

WeekPoint(es, last, field) ==
    LET total == BucketTotal(es, last - 6, last, field, Ratio(Zero, 0))
    IN IF total.n = 0 THEN NoSample ELSE total

\* 8 buckets, oldest first; bucket x ends (7 - x) weeks before the reference date
WeekSeries(es, date, field) ==
    [i \in 1..8 |->
        [x |-> i - 1,
         y |-> WeekPoint(es, nth_prev_occurrence(date, weekday(date), 8 - i), field)]]

Aggregate(es, date, zm, field) ==
    IF zm = "Day" THEN DaySeries(es, date, field)
    ELSE IF zm = "Week" THEN WeekSeries(es, date, field)
    ELSE <<>>

get_weights(es, date, zm) == Aggregate(es, date, zm, "weight")
get_waists(es, date, zm) == Aggregate(es, date, zm, "waist")

(***************************************************************************)
(* ui(): what a frame of the terminal application plots                    *)
(***************************************************************************)
\* the weight graph drawn at Day zoom whatever the level
weight_pts_day == get_weights(entries, curr_date, "Day")

weight_pts == get_weights(entries, curr_date, zoom)
waist_pts == get_waists(entries, curr_date, "Day")

RECURSIVE LabelsWhile(_, _)
LabelsWhile(date, last) ==
    IF date <= last THEN <<day(date)>> \o LabelsWhile(next_day(date), last)
    ELSE <<>>

\* the loop stops one day short
labels_short ==
    IF zoom = "Day"
    THEN LabelsWhile(prev_occurrence(curr_date, weekday(curr_date)),
                     previous_day(curr_date))
    ELSE <<>>

labels ==
    IF zoom = "Day"
    THEN LabelsWhile(prev_occurrence(curr_date, weekday(curr_date)), curr_date)
    ELSE <<>>

x_axis_bounds == <<0, 7>>

(***************************************************************************)
(* App: the operations run_app calls                                       *)
(***************************************************************************)
DaysBefore == 1       \* days the user may go before the first test entry
DaysAfter == 1        \* ... and after the last
MaxEditKeys == 1      \* typing, deleting and cursor keys handled in a run

TuiMinDate == from_calendar_date(2024, 12, 12) - DaysBefore
TuiMaxDate == from_calendar_date(2024, 12, 25) + DaysAfter
TuiDates == TuiMinDate..TuiMaxDate

\* the days the program is started on
TuiClock == {from_calendar_date(2024, 12, 14), from_calendar_date(2024, 12, 25)}

\* the characters typed: a letter, a digit, the decimal separator
TuiChars == {"a", "7", "."}

App == [entries |-> entries, curr_date |-> curr_date, curr_screen |-> curr_screen,
        zoom |-> zoom, edit_value |-> edit_value, edit_content |-> edit_content,
        edit_weight |-> edit_weight, edit_waist |-> edit_waist]

ZoomLevel == {"Day", "Week", "Month"}

\* run_app never assigns app.zoom: a run keeps the level App::new gave it
App_new(today, level) ==
    [entries |-> <<>>, curr_date |-> today, curr_screen |-> "Main",
     zoom |-> level, edit_value |-> "Content", edit_content |-> create_empty,
     edit_weight |-> create_empty, edit_waist |-> create_empty]

MeasureText(m) == IF IsSome(m) THEN F32ToString(m[1]) ELSE <<>>

enter_edit_mode(a) ==
    LET e == get_entry_by_date(a.entries, a.curr_date)
    IN IF IsSome(e)
       THEN [a EXCEPT !.edit_content = create_from(e[1].content, 0),
                      !.edit_weight = create_from(MeasureText(e[1].weight_kg), 0),
                      !.edit_waist = create_from(MeasureText(e[1].waist_cm), 0),
                      !.edit_value = "Content",
                      !.curr_screen = "Editing"]
       ELSE [a EXCEPT !.edit_content = create_empty,
                      !.edit_weight = create_empty,
                      !.edit_waist = create_empty,
                      !.edit_value = "Content",
                      !.curr_screen = "Editing"]

\* the Entry the three buffers stand for
EditedEntry(a) ==
    Entry(to_final_string(a.edit_content),
          ParseF32(to_final_string(a.edit_weight)),
          ParseF32(to_final_string(a.edit_waist)),
          a.curr_date)

HasData(e) == Len(e.content) > 0 \/ IsSome(e.weight_kg) \/ IsSome(e.waist_cm)

\* a numeric buffer that holds text but no number keeps the screen on Editing
enter_main_mode_strict(a) ==
    LET e == EditedEntry(a)
        rejected(b, m) == to_final_string(b) # <<>> /\ ~IsSome(m)
    IN IF rejected(a.edit_weight, e.weight_kg) \/ rejected(a.edit_waist, e.waist_cm)
       THEN a
       ELSE [a EXCEPT !.entries = IF HasData(e) THEN save_entry(@, e) ELSE @,
                      !.edit_content = create_empty,
                      !.edit_weight = create_empty,
                      !.edit_waist = create_empty,
                      !.curr_screen = "Main"]

enter_main_mode(a) ==
    LET e == EditedEntry(a)
    IN [a EXCEPT !.entries = IF HasData(e) THEN save_entry(@, e) ELSE @,
                 !.edit_content = create_empty,
                 !.edit_weight = create_empty,
                 !.edit_waist = create_empty,
                 !.curr_screen = "Main"]

NumericAccepts(b, c) ==
    \/ IsDigit(c)
    \/ c = "." /\ \A k \in 1..Len(to_final_string(b)) : to_final_string(b)[k] # "."

\* every character goes into the active buffer, whatever the field
type_char_unfiltered(a, c) ==
    IF a.edit_value = "Content"
    THEN [a EXCEPT !.edit_content = insert_char(@, c)]
    ELSE IF a.edit_value = "Weight"
    THEN [a EXCEPT !.edit_weight = insert_char(@, c)]
    ELSE [a EXCEPT !.edit_waist = insert_char(@, c)]

type_char(a, c) ==
    IF a.edit_value = "Content"
    THEN [a EXCEPT !.edit_content = insert_char(@, c)]
    ELSE IF a.edit_value = "Weight"
    THEN [a EXCEPT !.edit_weight = IF NumericAccepts(@, c) THEN insert_char(@, c) ELSE @]
    ELSE [a EXCEPT !.edit_waist = IF NumericAccepts(@, c) THEN insert_char(@, c) ELSE @]

\* route an EditBuffer operation to the active field
OnActive(a, Op(_)) ==
    IF a.edit_value = "Content" THEN [a EXCEPT !.edit_content = Op(@)]
    ELSE IF a.edit_value = "Weight" THEN [a EXCEPT !.edit_weight = Op(@)]
    ELSE [a EXCEPT !.edit_waist = Op(@)]

remove_char(a) == OnActive(a, delete_before)
prev_cursor(a) == OnActive(a, move_cursor_backward)
next_cursor(a) == OnActive(a, move_cursor_forward)

cycle_edit_value(a) ==
    [a EXCEPT !.edit_value = IF @ = "Content" THEN "Weight"
                             ELSE IF @ = "Weight" THEN "Waist" ELSE "Content"]

(***************************************************************************)
(* run_app as a state machine: the test entries, then one key per step     *)
(***************************************************************************)
InitTui ==
    /\ program = "tui"
    /\ now \in TuiClock
    /\ pc = "start"
    /\ zoom \in ZoomLevel
    /\ entries = App_new(now, zoom).entries
    /\ curr_date = App_new(now, zoom).curr_date
    /\ curr_screen = App_new(now, zoom).curr_screen
    /\ edit_value = App_new(now, zoom).edit_value
    /\ edit_content = App_new(now, zoom).edit_content
    /\ edit_weight = App_new(now, zoom).edit_weight
    /\ edit_waist = App_new(now, zoom).edit_waist
    /\ edit_keys = 0
    /\ saves = 0
    /\ upserted = [d \in TuiDates |-> <<>>]
    /\ created = <<>> /\ buf_text = <<>> /\ buf_cursor = 0
    /\ sections = <<>>
    /\ mode = "Main"
    /\ first_time_edit = FALSE
    /\ edit_start = None
    /\ frames = 0

SetApp(a) ==
    /\ entries' = a.entries
    /\ curr_date' = a.curr_date
    /\ curr_screen' = a.curr_screen
    /\ zoom' = a.zoom
    /\ edit_value' = a.edit_value
    /\ edit_content' = a.edit_content
    /\ edit_weight' = a.edit_weight
    /\ edit_waist' = a.edit_waist

Same == UNCHANGED <<program, now, guiOnly, saves, bufOnly>>

\* the history after save_entry(entry); an entry saved again unchanged is
\* recorded once
Upserted(h, entry) ==
    [h EXCEPT ![entry.date] =
        IF Len(@) > 0 /\ @[1] = entry THEN @
        ELSE <<entry>> \o SubSeq(@, 1, IF Len(@) > 0 THEN 1 ELSE 0)]

RECURSIVE UpsertedAll(_, _)
UpsertedAll(h, more) ==
    IF Len(more) = 0 THEN h ELSE UpsertedAll(Upserted(h, Head(more)), Tail(more))

\* the save_entry calls before the loop
SaveTestEntries ==
    /\ program \in {"tui", "edit"} /\ pc = "start"
    /\ pc' = "loop"
    /\ SetApp([App EXCEPT !.entries = SaveAll(@, TestEntries)])
    /\ upserted' = UpsertedAll(upserted, TestEntries)
    /\ UNCHANGED edit_keys
    /\ Same

InLoop(screen) == program \in {"tui", "edit"} /\ pc = "loop" /\ curr_screen = screen

\* counted keys of a run: few when the whole of run_app is explored, more when
\* only its editing sessions are
MaxSessionKeys == 3
KeyBudget == IF program = "edit" THEN MaxSessionKeys ELSE MaxEditKeys

\* a key that touches neither the store nor the buffers' budget
Step(a) == SetApp(a) /\ pc' = pc /\ UNCHANGED <<edit_keys, upserted>> /\ Same

\* a key counted in edit_keys
EditStep(a) ==
    /\ edit_keys < KeyBudget
    /\ edit_keys' = edit_keys + 1
    /\ SetApp(a) /\ pc' = pc /\ UNCHANGED upserted /\ Same

Break ==
    /\ pc' = "done"
    /\ UNCHANGED <<entries, curr_date, curr_screen, zoom, edit_value,
                   edit_content, edit_weight, edit_waist, edit_keys, upserted>>
    /\ Same

\* CurrScreen::Main
MainEsc == InLoop("Main") /\ Break
MainE == InLoop("Main") /\ Step(enter_edit_mode(App))
MainLeft ==
    /\ InLoop("Main") /\ previous_day(curr_date) >= TuiMinDate
    /\ Step([App EXCEPT !.curr_date = previous_day(@)])
MainRight ==
    /\ InLoop("Main") /\ next_day(curr_date) <= TuiMaxDate
    /\ Step([App EXCEPT !.curr_date = next_day(@)])
MainUp ==
    /\ InLoop("Main") /\ prev_occurrence(curr_date, weekday(curr_date)) >= TuiMinDate
    /\ Step([App EXCEPT !.curr_date = prev_occurrence(@, weekday(@))])
MainDown ==
    /\ InLoop("Main") /\ next_occurrence(curr_date, weekday(curr_date)) <= TuiMaxDate
    /\ Step([App EXCEPT !.curr_date = next_occurrence(@, weekday(@))])

\* CurrScreen::Editing
EditingEsc == InLoop("Editing") /\ Break
EditingEnter ==
    /\ InLoop("Editing")
    /\ SetApp(enter_main_mode(App))
    /\ upserted' = IF HasData(EditedEntry(App))
                   THEN Upserted(upserted, EditedEntry(App))
                   ELSE upserted
    /\ pc' = pc /\ UNCHANGED edit_keys /\ Same
EditingChar == InLoop("Editing") /\ \E c \in TuiChars : EditStep(type_char(App, c))
EditingBackspace == InLoop("Editing") /\ EditStep(remove_char(App))
\* Tab bound to the handler that opens the editing screen
EditingTab_rehydrate == InLoop("Editing") /\ Step(enter_edit_mode(App))

EditingTab == InLoop("Editing") /\ Step(cycle_edit_value(App))
\* Left handled as on the Main screen
EditingLeft_previous_day ==
    /\ InLoop("Editing") /\ previous_day(curr_date) >= TuiMinDate
    /\ EditStep([App EXCEPT !.curr_date = previous_day(@)])

EditingLeft == InLoop("Editing") /\ EditStep(prev_cursor(App))
EditingRight == InLoop("Editing") /\ EditStep(next_cursor(App))

NextTui ==
    \/ SaveTestEntries
    \/ MainEsc \/ MainE \/ MainLeft \/ MainRight \/ MainUp \/ MainDown
    \/ EditingEsc \/ EditingEnter \/ EditingChar \/ EditingBackspace
    \/ EditingTab \/ EditingLeft \/ EditingRight

SpecTui == InitTui /\ [][NextTui]_vars

(***************************************************************************)
(* The editing sessions of run_app: the same loop and the same handlers,   *)
(* started on a day with measurements, a day with text only and a day      *)
(* with no entry, the keys that move the current date left out so that     *)
(* longer key sequences fit in an editing session                          *)
(***************************************************************************)
EditClock == {from_calendar_date(2024, 12, 23), from_calendar_date(2024, 12, 24),
              from_calendar_date(2024, 12, 26)}

InitEdit ==
    /\ program = "edit"
    /\ now \in EditClock
    /\ pc = "start"
    /\ zoom = "Day"
    /\ entries = App_new(now, zoom).entries
    /\ curr_date = App_new(now, zoom).curr_date
    /\ curr_screen = App_new(now, zoom).curr_screen
    /\ edit_value = App_new(now, zoom).edit_value
    /\ edit_content = App_new(now, zoom).edit_content
    /\ edit_weight = App_new(now, zoom).edit_weight
    /\ edit_waist = App_new(now, zoom).edit_waist
    /\ edit_keys = 0
    /\ saves = 0
    /\ upserted = [d \in TuiDates |-> <<>>]
    /\ created = <<>> /\ buf_text = <<>> /\ buf_cursor = 0
    /\ sections = <<>>
    /\ mode = "Main"
    /\ first_time_edit = FALSE
    /\ edit_start = None
    /\ frames = 0

NextEdit ==
    \/ SaveTestEntries
    \/ MainEsc \/ MainE
    \/ EditingEsc \/ EditingEnter \/ EditingChar \/ EditingBackspace
    \/ EditingTab \/ EditingLeft \/ EditingRight

SpecEdit == InitEdit /\ [][NextEdit]_vars

(***************************************************************************)
(* The store and the graphs driven directly: save_entry calls as those     *)
(* run_app makes before its loop, with entries of any date in any order,   *)
(* then a frame drawn for the current date and zoom level                  *)
(***************************************************************************)
MaxSaves == 3         \* save_entry calls in a run

StoreDates ==
    {from_calendar_date(2024, 12, 11), from_calendar_date(2024, 12, 23),
     from_calendar_date(2024, 12, 24), from_calendar_date(2024, 12, 25)}

StoreClock == {from_calendar_date(2024, 12, 24), from_calendar_date(2024, 12, 25)}

\* what an entry passed to save_entry holds besides its date
StoreEntries ==
    {Entry(c[1], c[2], c[3], d) :
        c \in {<< <<>>, None, None >>,
               << <<"a">>, Some(Whole(70)), None >>,
               << <<>>, Some(Whole(80)), Some(Whole(85)) >>,
               << <<"a">>, Some(Whole(90)), Some(Whole(85)) >>,
               << <<"a">>, None, Some(Whole(85)) >>},
        d \in StoreDates}

InitStore ==
    /\ program = "store"
    /\ now \in StoreClock
    /\ pc = "start"
    /\ zoom \in ZoomLevel
    /\ entries = App_new(now, zoom).entries
    /\ curr_date = App_new(now, zoom).curr_date
    /\ curr_screen = App_new(now, zoom).curr_screen
    /\ edit_value = App_new(now, zoom).edit_value
    /\ edit_content = App_new(now, zoom).edit_content
    /\ edit_weight = App_new(now, zoom).edit_weight
    /\ edit_waist = App_new(now, zoom).edit_waist
    /\ edit_keys = 0
    /\ saves = 0
    /\ upserted = [d \in StoreDates |-> <<>>]
    /\ created = <<>> /\ buf_text = <<>> /\ buf_cursor = 0
    /\ sections = <<>>
    /\ mode = "Main"
    /\ first_time_edit = FALSE
    /\ edit_start = None
    /\ frames = 0

SaveEntry ==
    /\ program = "store" /\ pc = "start" /\ saves < MaxSaves
    /\ \E entry \in StoreEntries :
          /\ entries' = save_entry(entries, entry)
          /\ upserted' = Upserted(upserted, entry)
    /\ saves' = saves + 1
    /\ UNCHANGED <<program, now, curr_date, guiOnly, pc, curr_screen, zoom,
                   edit_value, edit_content, edit_weight, edit_waist, edit_keys,
                   bufOnly>>

NextStore == SaveEntry

SpecStore == InitStore /\ [][NextStore]_vars

(***************************************************************************)
(* An EditBuffer driven directly: created empty or from a text and a       *)
(* cursor index, then operations applied one at a time.  The buffer is     *)
(* edit_content; buf_text and buf_cursor follow what the operations amount *)
(* to on a text with a cursor in it.                                       *)
(***************************************************************************)
MaxTextLen == 2       \* length of the text a buffer is created from
MaxOps == 3           \* operations applied to a buffer

BufChars == {"a", "7"}

RECURSIVE Texts(_)
Texts(n) ==
    IF n = 0 THEN {<<>>}
    ELSE Texts(n - 1) \cup {Append(t, c) : t \in Texts(n - 1), c \in BufChars}

\* the text with c put in at position k (0 = before the first character)
PutAt(t, k, c) == SubSeq(t, 1, k) \o <<c>> \o SubSeq(t, k + 1, Len(t))
\* the text without its k-th character
CutAt(t, k) == SubSeq(t, 1, k - 1) \o SubSeq(t, k + 1, Len(t))

InitBuffer ==
    /\ program = "buffer"
    /\ now = from_calendar_date(2024, 12, 25)
    /\ pc = "start"
    /\ zoom = "Day"
    /\ entries = App_new(now, zoom).entries
    /\ curr_date = App_new(now, zoom).curr_date
    /\ curr_screen = "Editing"
    /\ edit_value = "Content"
    /\ edit_weight = create_empty
    /\ edit_waist = create_empty
    /\ edit_keys = 0
    /\ saves = 0
    /\ upserted = <<>>
    /\ \/ /\ created = None
          /\ edit_content = create_empty
          /\ buf_text = <<>>
          /\ buf_cursor = 0
       \/ \E t \in Texts(MaxTextLen), i \in 0..(MaxTextLen + 1) :
             /\ created = Some([text |-> t, cursor_index |-> i])
             /\ edit_content = create_from(t, i)
             /\ buf_text = t
             /\ buf_cursor = IF i = 0 \/ i > Len(t) THEN Len(t) ELSE i
    /\ sections = <<>>
    /\ mode = "Main"
    /\ first_time_edit = FALSE
    /\ edit_start = None
    /\ frames = 0

BufStep ==
    /\ program = "buffer" /\ edit_keys < MaxOps
    /\ edit_keys' = edit_keys + 1
    /\ UNCHANGED <<program, now, entries, curr_date, guiOnly, pc, curr_screen,
                   zoom, edit_value, edit_weight, edit_waist, saves, upserted,
                   created>>

InsertChar ==
    /\ BufStep
    /\ \E c \in BufChars :
          /\ edit_content' = insert_char(edit_content, c)
          /\ buf_text' = PutAt(buf_text, buf_cursor, c)
    /\ buf_cursor' = buf_cursor + 1

DeleteBefore ==
    /\ BufStep
    /\ edit_content' = delete_before(edit_content)
    /\ buf_text' = IF buf_cursor > 0 THEN CutAt(buf_text, buf_cursor) ELSE buf_text
    /\ buf_cursor' = IF buf_cursor > 0 THEN buf_cursor - 1 ELSE buf_cursor

MoveCursorForward ==
    /\ BufStep
    /\ edit_content' = move_cursor_forward(edit_content)
    /\ buf_cursor' = IF buf_cursor < Len(buf_text) THEN buf_cursor + 1 ELSE buf_cursor
    /\ buf_text' = buf_text

MoveCursorBackward ==
    /\ BufStep
    /\ edit_content' = move_cursor_backward(edit_content)
    /\ buf_cursor' = IF buf_cursor > 0 THEN buf_cursor - 1 ELSE buf_cursor
    /\ buf_text' = buf_text

NextBuffer == InsertChar \/ DeleteBefore \/ MoveCursorForward \/ MoveCursorBackward

SpecBuffer == InitBuffer /\ [][NextBuffer]_vars

(***************************************************************************)
(* Any of them                                                              *)
(***************************************************************************)
Init == InitGui \/ InitTui \/ InitStore
Next == NextGui \/ NextTui \/ NextStore
Spec == Init /\ [][Next]_vars

(***************************************************************************)
(* Properties                                                              *)
(***************************************************************************)
DatesOf(es) == {es[k].date : k \in 1..Len(es)}
December(d) == from_calendar_date(2024, 12, d)

\* C1: whatever the session has done (the clock advancing, navigation, an
\* entry added or edited, edit mode left, save_entry), no two entries of
\* the store have the same date.
NoDuplicateDates ==
    \A j, k \in 1..Len(entries) : entries[j].date = entries[k].date => j = k

\* C1 witness: the diary holds the entries of two days, the later one being
\* today's, for which "Add entry for today!" is therefore not offered again.
TwoDaysOneEntryEach ==
    /\ program = "gui"
    /\ Len(entries) = 2
    /\ entries[1].date = curr_date
    /\ entries[2].date < curr_date
    /\ IsSome(get_entry_by_date(entries, curr_date))

\* C2: after any insertions into the store, an entry for the current date
\* inserted when older ones exist included, the stored sequence is strictly
\* increasing by date.
StoreAscending ==
    \A k \in 1..(Len(entries) - 1) : entries[k].date < entries[k + 1].date

\* C3: for every date d, get(d) is the entry most recently passed to
\* save_entry for d (content, weight and waist), it is absent when none ever
\* was, and it is never an entry of another date.
GetReturnsLastUpserted ==
    program \in {"store", "tui"} =>
        \A d \in DOMAIN upserted :
            LET got == get_entry_by_date(entries, d)
            IN /\ upserted[d] = <<>> => got = None
               /\ upserted[d] # <<>> => got = Some(upserted[d][1])
               /\ IsSome(got) => got[1].date = d

\* C3 witness: a date saved twice with different entries, an entry of a
\* later date being in the store and none of a third date; get returns the
\* second of the two, and nothing for the third date.
SavedTwiceGetsSecond ==
    /\ program = "store"
    /\ Len(entries) = 2
    /\ get_entry_by_date(entries, December(24)) = None
    /\ \E d \in DOMAIN upserted :
          /\ Len(upserted[d]) = 2
          /\ upserted[d][1] # upserted[d][2]
          /\ entries[1].date = d
          /\ get_entry_by_date(entries, d) = Some(upserted[d][1])

NothingIn(e) == Len(e.content) = 0 /\ e.weight_kg = 0 /\ e.waist_cm = 0

\* C4: when edit mode is left (mode Edit to Main by a frame that handles
\* the key), the store holds no entry with empty content and no weight and
\* no waist: an entry with nothing in it does not stay once back in Main.
NoEmptyEntryAfterEdit ==
    [][(/\ mode = "Edit" /\ mode' = "Main"
        /\ (sections' # sections \/ entries' # entries))
       => \A k \in 1..Len(entries') : ~NothingIn(entries'[k])]_vars

\* C5: when an edit is cancelled (Escape on the entry being edited), the
\* store holds the data it held when the edit began: nothing typed or
\* dragged during the edit stays.
CancelRestoresStore ==
    [][(/\ IsSome(edit_start)
        /\ mode = "Edit" /\ mode' = "Main"
        /\ NumEdited(entries') < NumEdited(entries))
       => StoreKept(entries') = edit_start[1]]_vars

\* C6: the Editing screen is left to Main (commit) or to DiscardChanges
\* (cancel); no key pressed in Editing ends the program.
EditingNeverExits ==
    [][(pc = "loop" /\ curr_screen = "Editing")
       => (pc' = "loop" /\ curr_screen' \in {"Editing", "Main", "DiscardChanges"})]_vars

\* C7: the store serialized and deserialized is the same store: the same
\* entries (date, content, weight, waist) in the same order.
RoundTrip ==
    program = "gui" =>
        StoreData(DeserializeEntries(SerializeEntries(entries))) = StoreData(entries)

\* C7 witness: two entries either side of a new year, one with a quote in
\* its content and a negative weight.
RoundTripTwoYears ==
    /\ program = "gui"
    /\ Len(entries) = 2
    /\ year(entries[1].date) # year(entries[2].date)
    /\ \E k \in 1..2 : /\ entries[k].content = <<"a", "\"">>
                       /\ entries[k].weight_kg < 0
                       /\ entries[k].waist_cm = 850
    /\ StoreData(DeserializeEntries(SerializeEntries(entries))) = StoreData(entries)

\* the store's only entry has weight 80.0 and is dated the reference date
OnlyEntryToday ==
    /\ program = "store"
    /\ zoom = "Day"
    /\ Len(entries) = 1
    /\ entries[1].date = curr_date
    /\ entries[1].weight_kg = Some(Whole(80))

NonZero(pts) == {i \in 1..Len(pts) : ~RatioEq(pts[i].y, NoSample)}

WeekSamples(last) ==
    {k \in 1..Len(entries) :
        /\ entries[k].date \in (last - 6)..last
        /\ IsSome(entries[k].weight_kg)}

RECURSIVE SumOf(_)
SumOf(ks) ==
    IF ks = {} THEN Zero
    ELSE LET k == CHOOSE k \in ks : TRUE
         IN AddDec(entries[k].weight_kg[1], SumOf(ks \ {k}))

\* C9: Week zoom gives 8 buckets, x = 0..7, oldest first; a bucket's y is
\* the arithmetic mean of the weights present in its week and 0.0 when the
\* week has none; an entry without a weight does not count.
WeekBucketsAreMeans ==
    (program = "store" /\ zoom = "Week") =>
        /\ Len(weight_pts) = 8
        /\ \A i \in 1..Len(weight_pts) :
              LET ks == WeekSamples(curr_date - 7 * (8 - i))
              IN /\ weight_pts[i].x = i - 1
                 /\ ks = {} => weight_pts[i].y = Ratio(Zero, 1)
                 /\ ks # {} => RatioEq(weight_pts[i].y, Ratio(SumOf(ks), Cardinality(ks)))

\* C9 witness: 70, 80 and 90 on three days of the reference date's week
\* give 80 for the last bucket, and the first bucket, empty, gives 0.0.
WeekOfThreeSamples ==
    /\ program = "store" /\ zoom = "Week"
    /\ Len(entries) = 3
    /\ {entries[k].weight_kg : k \in 1..3} =
          {Some(Whole(70)), Some(Whole(80)), Some(Whole(90))}
    /\ DatesOf(entries) = {December(23), December(24), December(25)}
    /\ curr_date = December(25)
    /\ RatioEq(weight_pts[8].y, Ratio(Whole(80), 1))
    /\ weight_pts[1] = [x |-> 0, y |-> Ratio(Zero, 1)]

\* C10: in every frame drawn, the waist series is the aggregation the
\* weight series is (the same reference date, zoom level, window and
\* buckets) read from the waist field.
WaistAggregatedAsWeight ==
    (program = "tui" /\ pc = "loop") =>
        /\ weight_pts = Aggregate(entries, curr_date, zoom, "weight")
        /\ waist_pts = Aggregate(entries, curr_date, zoom, "waist")

\* C11: in every EditBuffer state reached by create_empty / create_from
\* followed by any insert_char, delete_before, move_cursor_forward and
\* move_cursor_backward, the text of the buffer is before_cursor followed
\* by after_cursor and is the text the operations amount to, and the cursor
\* position, the length of before_cursor, lies in 0..length of the text.
BufferTextAndCursor ==
    program = "buffer" =>
        /\ to_final_string(edit_content) = edit_content.before_cursor \o edit_content.after_cursor
        /\ to_final_string(edit_content) = buf_text
        /\ Len(to_final_string(edit_content)) =
              Len(edit_content.before_cursor) + Len(edit_content.after_cursor)
        /\ Len(edit_content.before_cursor) = buf_cursor
        /\ Len(edit_content.before_cursor) \in 0..Len(to_final_string(edit_content))

\* C11 witness: a buffer created from "a7" with the cursor after the "a",
\* which three operations have turned into "77" with the cursor between.
BufferEditedInTheMiddle ==
    /\ program = "buffer"
    /\ created = Some([text |-> <<"a", "7">>, cursor_index |-> 1])
    /\ edit_keys = 3
    /\ edit_content = [before_cursor |-> <<"7">>, after_cursor |-> <<"7">>]

\* C12: for every text s and cursor index i, the text of create_from(s, i)
\* is s; with i = 0 the cursor is at the end of s (move_cursor_backward
\* then changes the buffer iff s is not empty); with i > length(s) the
\* cursor is at the end; otherwise the cursor is at i.
CreateFromKeepsText ==
    (program = "buffer" /\ edit_keys = 0 /\ IsSome(created)) =>
        LET s == created[1].text
            i == created[1].cursor_index
            b == edit_content
        IN /\ to_final_string(b) = s
           /\ i = 0 => /\ Len(b.before_cursor) = Len(s)
                       /\ (move_cursor_backward(b) # b) <=> (s # <<>>)
           /\ i > Len(s) => Len(b.before_cursor) = Len(s)
           /\ i \in 1..Len(s) => /\ b.before_cursor = SubSeq(s, 1, i)
                                 /\ b.after_cursor = SubSeq(s, i + 1, Len(s))

\* C12 witness: create_from("a7", 0) has the whole text before the cursor.
CreatedAtTheEnd ==
    /\ program = "buffer" /\ edit_keys = 0
    /\ created = Some([text |-> <<"a", "7">>, cursor_index |-> 0])
    /\ edit_content = [before_cursor |-> <<"a", "7">>, after_cursor |-> <<>>]
    /\ move_cursor_backward(edit_content) # edit_content

\* C13: delete_before on a buffer with nothing before the cursor (the empty
\* buffer, or the cursor at 0 before a non-empty after_cursor) leaves both
\* halves as they are; otherwise it removes the last character of
\* before_cursor, and only it, after_cursor staying as it is.
DeleteBeforeEffect ==
    [][DeleteBefore =>
          LET b == edit_content
          IN IF b.before_cursor = <<>>
             THEN edit_content' = b
             ELSE /\ edit_content'.before_cursor \o <<b.before_cursor[Len(b.before_cursor)]>>
                       = b.before_cursor
                  /\ edit_content'.after_cursor = b.after_cursor]_vars

\* C13 witness: from "a" | "7" only a delete_before followed by an operation
\* that finds nothing before the cursor gives | "7" in two operations.
DeletedThenNothingBefore ==
    /\ program = "buffer" /\ edit_keys = 2
    /\ created = Some([text |-> <<"a", "7">>, cursor_index |-> 1])
    /\ edit_content = [before_cursor |-> <<>>, after_cursor |-> <<"7">>]

(***************************************************************************)
(* C14: while the screen is Editing, a typed character, a backspace and a  *)
(* cursor movement change at most the buffer of the active field: the      *)
(* active field, the two other buffers, the store and the current date     *)
(* stay as they are; the next-field key changes nothing but the active     *)
(* field, which goes Content -> Weight -> Waist -> Content                 *)
(***************************************************************************)
EditingKeysTouchActiveFieldOnly ==
    [][LET others == <<entries, curr_date, curr_screen>>
           follows == [Content |-> "Weight", Weight |-> "Waist", Waist |-> "Content"]
       IN /\ (EditingChar \/ EditingBackspace \/ EditingLeft \/ EditingRight) =>
                /\ others' = others
                /\ edit_value' = edit_value
                /\ edit_value # "Content" => edit_content' = edit_content
                /\ edit_value # "Weight" => edit_weight' = edit_weight
                /\ edit_value # "Waist" => edit_waist' = edit_waist
          /\ EditingTab =>
                /\ others' = others
                /\ <<edit_content, edit_weight, edit_waist>>' =
                      <<edit_content, edit_weight, edit_waist>>
                /\ edit_value' = follows[edit_value]]_vars

\* the three fields of a day that had no entry were each typed into
ThreeFieldsTyped ==
    /\ program = "edit" /\ curr_screen = "Editing" /\ edit_value = "Waist"
    /\ to_final_string(edit_content) = <<"a">>
    /\ to_final_string(edit_weight) = <<"7">>
    /\ to_final_string(edit_waist) = <<".">>

CommitStoresWhatParses ==
    [][EditingEnter =>
         LET c == to_final_string(edit_content)
             w == to_final_string(edit_weight)
             ws == to_final_string(edit_waist)
             number(t) == \E k \in 1..Len(t) : IsDigit(t[k])
             got == get_entry_by_date(entries', curr_date)
         IN /\ curr_screen' = "Main" /\ pc' = "loop" /\ curr_date' = curr_date
            /\ IF c # <<>> \/ number(w) \/ number(ws)
               THEN /\ got # None
                    /\ got[1].content = c
                    /\ got[1].weight_kg = IF number(w) THEN ParseF32(w) ELSE None
                    /\ got[1].waist_cm = IF number(ws) THEN ParseF32(ws) ELSE None
                    /\ number(w) => got[1].weight_kg # None
                    /\ number(ws) => got[1].waist_cm # None
               ELSE entries' = entries]_vars

\* a day without entry committed after three keys: text, no weight, a waist
CommittedWithoutWeight ==
    /\ program = "edit" /\ pc = "loop" /\ curr_screen = "Main"
    /\ now = from_calendar_date(2024, 12, 26)
    /\ edit_keys = MaxSessionKeys
    /\ get_entry_by_date(entries, curr_date) =
          Some(Entry(<<"a">>, None, Some(Whole(7)), curr_date))

(***************************************************************************)
(* C17: in the graphical application, whenever the mode is Main no entry,  *)
(* no section and no task has its edit flag set                            *)
(***************************************************************************)
NoEditFlagInMain ==
    program = "gui" /\ mode = "Main" =>
        /\ \A k \in 1..Len(entries) : ~entries[k].edit
        /\ \A i \in 1..Len(sections) :
              /\ ~sections[i].edit
              /\ \A j \in 1..Len(sections[i].tasks) : ~sections[i].tasks[j].edit

(***************************************************************************)
(* C18: a frame of the graphical application that starts in Edit mode      *)
(* removes no entry that holds data: an entry with text, or with a weight  *)
(* or a waist other than 0.0, negative ones too, is still in the store     *)
(* after the frame                                                         *)
(***************************************************************************)
EditPruningKeepsData ==
    [][program = "gui" /\ mode = "Edit" =>
         \A k \in 1..Len(entries) :
            (\/ entries[k].content # <<>>
             \/ entries[k].weight_kg # 0
             \/ entries[k].waist_cm # 0)
                => entries[k].date \in DatesOf(entries')]_vars

(***************************************************************************)
(* C19: in the key loop of the terminal application no step taken on the   *)
(* Editing screen changes the current date; the date changes only on       *)
(* steps that start and end on the Main screen, by one day or by seven     *)
(* days either way, so an edit is committed on the date it began on        *)
(***************************************************************************)
DateMovesOnlyInMain ==
    [][program = "tui" =>
         /\ curr_screen = "Editing" => curr_date' = curr_date
         /\ curr_date' # curr_date =>
               /\ curr_screen = "Main" /\ curr_screen' = "Main"
               /\ curr_date' - curr_date \in {-7, -1, 1, 7}]_vars

\* eight days back from the start, an edit of that day's entry was committed
CommittedEightDaysBack ==
    /\ program = "tui" /\ pc = "loop" /\ curr_screen = "Main"
    /\ curr_date = now - 8
    /\ edit_keys = MaxEditKeys
    /\ Len(upserted[curr_date]) = 2
    /\ get_entry_by_date(entries, curr_date) = Some(upserted[curr_date][1])

(***************************************************************************)
(* C20: from the Main screen, beginning to edit the entry of the current   *)
(* date and committing at once leaves the store as it was: in the terminal *)
(* application e then Enter, in the graphical one a click on an entry's    *)
(* date then Escape; no entry is added, removed or changed                 *)
(***************************************************************************)
BeginEditThenCommitKeepsStore ==
    /\ program \in {"tui", "edit"} /\ pc = "loop" /\ curr_screen = "Main" =>
          enter_main_mode(enter_edit_mode(App)).entries = entries
    /\ program = "gui" /\ mode = "Main" =>
          \A k \in 1..Len(entries) :
             LET opened == UpdateFrame(MyApp, now, Ev("entry_date", k, 0, <<>>, 0))
                 closed == UpdateFrame(opened, now, Ev("key_escape", 0, 0, <<>>, 0))
             IN StoreData(closed.entries) = StoreData(entries)

====
